---------------------------- MODULE Spec2Model ----------------------------
(***************************************************************************)
(* Model of the feed core: the content enhancer AsyncAI (src/ai.py) and    *)
(* the feed fetcher / entry extractor AsyncRSSParser (src/rss_parser.py).  *)
(*                                                                         *)
(* The specifications, one per subsystem:                                  *)
(*   SpecAI        - enhance() calls interleaved on one event loop         *)
(*   SpecFetch     - fetch_feed() calls, feed status and error counters    *)
(*   FairSpecRetry - SpecFetch's steps for two coroutines, with fairness   *)
(*   SpecEntries   - parse_entries() over one feed result                  *)
(* Each leaves the variables of the other subsystems untouched.            *)
(***************************************************************************)
EXTENDS Integers, Sequences, FiniteSets, TLC

\* ------------------------------------------------------------------ bounds
NumTasks == 2          \* concurrent enhance() coroutines
MaxCalls == 4          \* enhance() calls started in one behaviour
MaxThreshold == 2      \* largest configured AI_ERROR_THRESHOLD
NumFetchers == 2       \* concurrent fetch_feed() coroutines
MaxErrors == 2         \* cap on a URL's error counter
MaxEntries == 3        \* entries in one feed result
NumStarted == 6        \* fetch_feed() calls started at the same time
MaxItems == 2          \* items that matter in one list attribute of an entry
MaxElements == 3       \* elements of a page that the image selectors match

\* Python's None for an optional value: Some(v) is <<v>>.
None == <<>>
Some(v) == <<v>>

VARIABLES
    config,     \* AsyncAI.config: threshold, provider type, prompt template
    ai,         \* AsyncAI fields: active, error_count, consecutive_errors, stats
    task,       \* per coroutine: position in enhance() and its last return value
    requests,   \* provider requests issued so far
    history     \* outcome of every enhance() call, in order of return

aiVars == <<config, ai, task, requests, history>>

VARIABLES
    feed_status,          \* AsyncRSSParser.feed_status: url -> bool
    feed_errors,          \* AsyncRSSParser.feed_errors: url -> int
    session_closed,       \* self.session.closed
    on_session_recreate,  \* a recovery callback is registered
    fetch                 \* per coroutine: position in fetch_feed() and its locals

fetchVars == <<feed_status, feed_errors, session_closed, on_session_recreate,
               fetch>>

VARIABLES
    feed_content,   \* argument of parse_entries: None or the feed's entries
    pos,            \* position of the for loop in feed_content['entries']
    seen_guids,     \* parse_entries local
    entries,        \* parse_entries local, the list it returns
    ppc             \* position in parse_entries: "call", "loop", "done"

entryVars == <<feed_content, pos, seen_guids, entries, ppc>>

VARIABLES
    call            \* a call of one of the parser's helper methods: its
                    \* arguments and, once it has returned, its result

vars == <<aiVars, fetchVars, entryVars, call>>

Tasks == 1..NumTasks

\* ---------------------------------------------------------------- AsyncAI

\* Provider answers, by the shape parse_response distinguishes and the kind
\* of description the parsed result carries.
Responses ==
    [shape : {"json_direct", "json_nested", "json_broken", "text"},
     desc : {"clean", "phrase", "mdlink", "empty"}]

\* _make_custom_api_request always answers the empty string.
CustomResponse == [shape |-> "text", desc |-> "empty"]

\* Variant: availability read off the consecutive counter alone.
is_available_reset(st) == st.consecutive_errors < config.AI_ERROR_THRESHOLD

is_available(st) ==
    IF ~st.active THEN FALSE
    ELSE st.error_count < config.AI_ERROR_THRESHOLD

\* Variant: the entry guard looks at the active flag only.
unavailable_flag_only(st) == ~st.active

unavailable(st) == ~st.active \/ ~is_available(st)

\* Variant: the breaker trips one failure late.
handle_error_late(st) ==
    LET n == [st EXCEPT !.error_count = @ + 1,
                        !.consecutive_errors = @ + 1,
                        !.stats.ai_errors = @ + 1]
    IN  IF n.consecutive_errors > config.AI_ERROR_THRESHOLD
        THEN [n EXCEPT !.active = FALSE]
        ELSE n

handle_error(st) ==
    LET n == [st EXCEPT !.error_count = @ + 1,
                        !.consecutive_errors = @ + 1,
                        !.stats.ai_errors = @ + 1]
    IN  IF n.consecutive_errors >= config.AI_ERROR_THRESHOLD
        THEN [n EXCEPT !.active = FALSE]
        ELSE n

\* parse_response: a JSON object with 'choices' that is not a sized
\* collection raises inside _extract_text_from_response and yields None;
\* every other answer ends in a two-key dict (the text cascade always
\* returns one).
parse_response(r) ==
    IF r.shape = "json_broken" THEN None
    ELSE Some([title |-> "title", description |-> r.desc])

is_low_quality_response(text) ==
    IF text = "empty" THEN TRUE
    ELSE text \in {"phrase", "mdlink"}

\* enhance(), lines 105-107: a truthy parse result.
parsed_ok(st) ==
    [st EXCEPT !.stats.ai_used = @ + 1, !.consecutive_errors = 0]

\* Variant: a quality rejection counted as a hard error.
quality_reject_hard(st) ==
    [st EXCEPT !.stats.ai_errors = @ + 1, !.error_count = @ + 1]

\* enhance(), lines 110-113: the quality gate rejects.
quality_reject(st) ==
    [st EXCEPT !.stats.ai_errors = @ + 1]

\* enhance() from the parse on (lines 104-119): new object state, return
\* value and outcome for provider answer r.
after_response(st, r) ==
    LET parsed == parse_response(r) IN
    IF parsed # None
    THEN LET ok == parsed_ok(st) IN
         IF is_low_quality_response(parsed[1].description)
         THEN [st |-> quality_reject(ok), ret |-> "absent", out |-> "low_quality"]
         ELSE [st |-> ok, ret |-> "enhancement", out |-> "success"]
    ELSE [st |-> handle_error(st), ret |-> "absent", out |-> "parse_failed"]

Finish(t, res) ==
    /\ ai' = res.st
    /\ task' = [task EXCEPT ![t] = [pc |-> "idle", result |-> res.ret]]
    /\ history' = Append(history, res.out)

InitAI ==
    /\ config \in [AI_ERROR_THRESHOLD : 1..MaxThreshold,
                   AI_PROVIDER_TYPE : {"openai", "custom"},
                   prompt_renders : BOOLEAN]
    /\ ai \in [active : BOOLEAN, error_count : {0}, consecutive_errors : {0},
               stats : [ai_used : {0}, ai_errors : {0}, token_usage : {0}]]
    /\ task = [t \in Tasks |-> [pc |-> "idle", result |-> "none"]]
    /\ requests = 0
    /\ history = <<>>
    /\ feed_status = <<>> /\ feed_errors = <<>> /\ session_closed = FALSE
    /\ on_session_recreate = FALSE /\ fetch = <<>>
    /\ feed_content = None /\ pos = 1 /\ seen_guids = {} /\ entries = <<>>
    /\ ppc = "done"
    /\ call = None

CanCall(t) == task[t].pc = "idle" /\ Len(history) + Cardinality({u \in Tasks : task[u].pc = "awaiting"}) < MaxCalls

\* enhance() entered while unavailable (line 80-81).
EnhanceUnavailable(t) ==
    /\ CanCall(t)
    /\ unavailable(ai)
    /\ Finish(t, [st |-> ai, ret |-> "absent", out |-> "unavailable"])
    /\ UNCHANGED <<config, requests>>

\* enhance() whose prompt template fails to render (line 85, then 121-124).
EnhanceRenderError(t) ==
    /\ CanCall(t)
    /\ ~unavailable(ai)
    /\ ~config.prompt_renders
    /\ Finish(t, [st |-> handle_error(ai), ret |-> "absent", out |-> "render_error"])
    /\ UNCHANGED <<config, requests>>

\* enhance() with the openai provider up to the await of line 92.
EnhanceRequest(t) ==
    /\ CanCall(t)
    /\ ~unavailable(ai)
    /\ config.prompt_renders
    /\ config.AI_PROVIDER_TYPE = "openai"
    /\ requests' = requests + 1
    /\ task' = [task EXCEPT ![t] = [pc |-> "awaiting", result |-> "none"]]
    /\ UNCHANGED <<config, ai, history>>

\* The awaited provider call raises (lines 121-124).
EnhanceProviderError(t) ==
    /\ task[t].pc = "awaiting"
    /\ Finish(t, [st |-> handle_error(ai), ret |-> "absent", out |-> "provider_error"])
    /\ UNCHANGED <<config, requests>>

\* The awaited provider call answers (lines 98, 104-119).
EnhanceResponse(t) ==
    /\ task[t].pc = "awaiting"
    /\ \E r \in Responses : Finish(t, after_response(ai, r))
    /\ UNCHANGED <<config, requests>>

\* enhance() with a custom provider: _make_custom_api_request never
\* suspends, so the call runs to its return in one step (lines 101-119).
EnhanceCustom(t) ==
    /\ CanCall(t)
    /\ ~unavailable(ai)
    /\ config.prompt_renders
    /\ config.AI_PROVIDER_TYPE # "openai"
    /\ requests' = requests + 1
    /\ Finish(t, after_response(ai, CustomResponse))
    /\ UNCHANGED config

NextAI ==
    \E t \in Tasks :
        \/ EnhanceUnavailable(t)
        \/ EnhanceRenderError(t)
        \/ EnhanceRequest(t)
        \/ EnhanceProviderError(t)
        \/ EnhanceResponse(t)
        \/ EnhanceCustom(t)

SpecAI == InitAI /\ [][NextAI /\ UNCHANGED <<fetchVars, entryVars, call>>]_vars


\* --------------------------------------------------- AsyncRSSParser: fetch

Urls == {"u1", "u2"}
Fetchers == 1..NumFetchers

max_retries == 3
\* retry_delay, in milliseconds (0.5 s).
retry_delay == 500

\* What one GET (request plus body read) ends in.
\* "exception" stands for every error the last two handlers count: a
\* RuntimeError other than "Session is closed", a timeout, a payload error.
GetOutcomes == {"ok200", "non200", "tls_close_notify", "client_os_error",
                "runtime_session_closed", "exception"}
\* Bodies handed to _safe_parse_feed.
Contents == {"parseable", "unparseable"}

\* Both dicts are only read through .get(url, default): feed_status with
\* default True (line 75), feed_errors with default 0 (lines 136, 188).  A
\* missing key is kept as its default, so each dict is a total map on Urls.
get_error_count(url) == feed_errors[url]

\* _safe_parse_feed, by its result alone: absent, or a parsed feed.
safe_parse_feed(content) ==
    IF content = "unparseable" THEN "absent" ELSE "feed"

\* A coroutine outside fetch_feed; url, resp and result are those of the
\* call it last returned from (resp: what its last GET ended in).  The status notification of lines
\* 112-113, 126-127 and 145-180 is a detached task that touches no parser
\* state and is left out.
Idle == [pc |-> "idle", url |-> "u1", attempt |-> 0, gets |-> 0, wait |-> 0,
         resp |-> "none", result |-> "none"]

InitFetch ==
    /\ feed_status = [u \in Urls |-> TRUE]
    /\ feed_errors = [u \in Urls |-> 0]
    /\ session_closed \in BOOLEAN
    /\ on_session_recreate \in BOOLEAN
    /\ fetch = [f \in Fetchers |-> Idle]

\* Variant: a failure is charged to every URL.
count_error_every_url(url) == [u \in Urls |-> feed_errors[u] + 1]

\* self.feed_errors[url] = self.feed_errors.get(url, 0) + 1
count_error(url) == [feed_errors EXCEPT ![url] = @ + 1]

\* fetch_feed returns v.
Return(fr, v) == [Idle EXCEPT !.url = fr.url, !.resp = fr.resp, !.result = v]

\* Variant: the activity check is skipped.
feed_active_always(url) == TRUE

\* self.feed_status.get(url, True)
feed_active(url) == feed_status[url]

\* Variant: the loop does not look at the session before the GET.
loop_top_unchecked(fr, n, closed) ==
    [fr EXCEPT !.pc = "get", !.attempt = n, !.gets = @ + 1]

\* Top of the retry loop for attempt n (lines 90-102): give up when the
\* session is closed, else issue the GET.
loop_top(fr, n, closed) ==
    IF closed
    THEN Return(fr, "absent")
    ELSE [fr EXCEPT !.pc = "get", !.attempt = n, !.gets = @ + 1]

\* Variant: the retry test allows one attempt more.
may_retry_extra(resp, attempt) ==
    resp = "tls_close_notify" /\ attempt <= max_retries

\* line 132
may_retry(resp, attempt) ==
    resp = "tls_close_notify" /\ attempt < max_retries

\* line 134
backoff(attempt) == retry_delay * attempt

InFlight(u) == Cardinality({f \in Fetchers : fetch[f].pc # "idle" /\ fetch[f].url = u})

CanFetch(f, u) ==
    /\ fetch[f].pc = "idle"
    /\ get_error_count(u) + InFlight(u) < MaxErrors

\* fetch_feed(url) up to its first await or return (lines 75-102).
fetch_feed_enter(f, u) ==
    /\ LET fr == [Idle EXCEPT !.url = u] IN
       fetch' = [fetch EXCEPT ![f] =
           IF ~feed_active(u) THEN Return(fr, "absent")
           ELSE IF session_closed
                THEN IF on_session_recreate
                     THEN [fr EXCEPT !.pc = "recreating"]
                     ELSE Return(fr, "absent")
                ELSE loop_top(fr, 1, FALSE)]
    /\ UNCHANGED <<feed_status, feed_errors, session_closed, on_session_recreate>>

FetchCall(f, u) == CanFetch(f, u) /\ fetch_feed_enter(f, u)

\* The awaited recovery callback returns (line 83); the session is the
\* one it left behind.
RecreateDone(f) ==
    /\ fetch[f].pc = "recreating"
    /\ \E closed \in BOOLEAN :
        /\ session_closed' = closed
        /\ fetch' = [fetch EXCEPT ![f] = loop_top(@, 1, closed)]
    /\ UNCHANGED <<feed_status, feed_errors, on_session_recreate>>

\* The GET of the current attempt ends in resp, with body content when
\* the status is 200 (lines 103-182).
GetDoneWith(f, resp, content) ==
    /\ fetch[f].pc = "get"
    /\ LET fr == [fetch[f] EXCEPT !.resp = resp]
            counted == /\ feed_errors' = count_error(fr.url)
                       /\ fetch' = [fetch EXCEPT ![f] =
                              Return(fr, "absent")]
        IN
        CASE resp = "ok200" ->
                /\ fetch' = [fetch EXCEPT ![f] =
                       Return(fr, safe_parse_feed(content))]
                /\ UNCHANGED feed_errors
          [] resp = "non200" ->
                /\ fetch' = [fetch EXCEPT ![f] =
                       Return(fr, "absent")]
                /\ UNCHANGED feed_errors
          [] resp \in {"tls_close_notify", "client_os_error"} ->
                IF may_retry(resp, fr.attempt)
                THEN /\ fetch' = [fetch EXCEPT ![f] =
                            [fr EXCEPT !.pc = "sleeping", !.wait = backoff(fr.attempt)]]
                     /\ UNCHANGED feed_errors
                ELSE counted
          [] resp = "runtime_session_closed" ->
                /\ fetch' = [fetch EXCEPT ![f] = Return(fr, "absent")]
                /\ UNCHANGED feed_errors
          [] OTHER -> counted
    /\ UNCHANGED <<feed_status, session_closed, on_session_recreate>>

GetDone(f) ==
    \E resp \in GetOutcomes, content \in Contents : GetDoneWith(f, resp, content)

\* The backoff sleep ends and the loop goes to the next attempt.
SleepDone(f) ==
    /\ fetch[f].pc = "sleeping"
    /\ fetch' = [fetch EXCEPT ![f] = loop_top(@, @.attempt + 1, session_closed)]
    /\ UNCHANGED <<feed_status, feed_errors, session_closed, on_session_recreate>>

set_feed_status(u, b) ==
    /\ feed_status' = [feed_status EXCEPT ![u] = b]
    /\ UNCHANGED <<feed_errors, session_closed, on_session_recreate, fetch>>

refresh_status(u) ==
    /\ feed_errors[u] # 0
    /\ feed_errors' = [feed_errors EXCEPT ![u] = 0]
    /\ UNCHANGED <<feed_status, session_closed, on_session_recreate, fetch>>

\* The owner of the shared session closes it.
SessionClose ==
    /\ ~session_closed
    /\ session_closed' = TRUE
    /\ UNCHANGED <<feed_status, feed_errors, on_session_recreate, fetch>>

FetchStep(f) == RecreateDone(f) \/ GetDone(f) \/ SleepDone(f)

\* The steps of the coroutines in Fs and of the parser's owner.
NextFetchOn(Fs) ==
    \/ \E f \in Fs, u \in Urls : FetchCall(f, u)
    \/ \E f \in Fs : RecreateDone(f)
    \/ \E f \in Fs : GetDone(f)
    \/ \E f \in Fs : SleepDone(f)
    \/ \E u \in Urls, b \in BOOLEAN : set_feed_status(u, b)
    \/ \E u \in Urls : refresh_status(u)
    \/ SessionClose

NextFetch == NextFetchOn(Fetchers)

InitFetchOnly ==
    /\ InitFetch
    /\ feed_content = None /\ pos = 1 /\ seen_guids = {} /\ entries = <<>>
    /\ ppc = "done"
    /\ call = None
    /\ config = [AI_ERROR_THRESHOLD |-> 1, AI_PROVIDER_TYPE |-> "openai",
                 prompt_renders |-> TRUE]
    /\ ai = [active |-> FALSE, error_count |-> 0, consecutive_errors |-> 0,
             stats |-> [ai_used |-> 0, ai_errors |-> 0, token_usage |-> 0]]
    /\ task = [t \in Tasks |-> [pc |-> "idle", result |-> "none"]]
    /\ requests = 0
    /\ history = <<>>

otherVars == <<aiVars, entryVars, call>>

SpecFetch == InitFetchOnly /\ [][NextFetch /\ UNCHANGED otherVars]_vars

\* Termination of a call is checked with two coroutines calling
\* fetch_feed, whatever NumFetchers is; the event loop keeps running, so a
\* pending GET (bounded by the 30 s timeout), sleep or callback ends.
RetryFetchers == {1, 2}

NextRetry == NextFetchOn(RetryFetchers)

FairSpecRetry ==
    /\ InitFetchOnly
    /\ [][NextRetry /\ UNCHANGED otherVars]_vars
    /\ \A f \in RetryFetchers : WF_vars(FetchStep(f) /\ UNCHANGED otherVars)

\* ------------------------------------- AsyncRSSParser: concurrent fetches

\* asyncio.Semaphore(5), line 46.  fetch_feed never acquires it.
semaphore == 5

\* NumStarted coroutines each call fetch_feed once on the same parser, with
\* the session open; every GET is answered with status 200.
Started == 1..NumStarted

InitGate ==
    /\ feed_status = [u \in Urls |-> TRUE]
    /\ feed_errors = [u \in Urls |-> 0]
    /\ session_closed = FALSE
    /\ on_session_recreate = FALSE
    /\ fetch = [f \in Started |-> Idle]
    /\ config = [AI_ERROR_THRESHOLD |-> 1, AI_PROVIDER_TYPE |-> "openai",
                 prompt_renders |-> TRUE]
    /\ ai = [active |-> FALSE, error_count |-> 0, consecutive_errors |-> 0,
             stats |-> [ai_used |-> 0, ai_errors |-> 0, token_usage |-> 0]]
    /\ task = [t \in Tasks |-> [pc |-> "idle", result |-> "none"]]
    /\ requests = 0
    /\ history = <<>>
    /\ feed_content = None /\ pos = 1 /\ seen_guids = {} /\ entries = <<>>
    /\ ppc = "done"
    /\ call = None

GateCall(f) ==
    /\ fetch[f].pc = "idle" /\ fetch[f].result = "none"
    /\ fetch_feed_enter(f, "u1")

GateGetDone(f) == \E content \in Contents : GetDoneWith(f, "ok200", content)

NextGate ==
    \/ \E f \in Started : GateCall(f)
    \/ \E f \in Started : GateGetDone(f)

SpecGate == InitGate /\ [][NextGate /\ UNCHANGED otherVars]_vars

\* ------------------------------------ AsyncRSSParser: _safe_parse_feed

\* A text is a sequence of characters, each taken up to what the regular
\* expression of line 211 tells apart: "D" is the literal <!DOCTYPE in any
\* case, "[", "]" and ">" are themselves, "c" is any other character.
\*   NoDoctype        <rss/>
\*   PlainDoctype     <!DOCTYPE rss><rss/>
\*   SubsetDoctype    <!DOCTYPE r [<!ENTITY x SYSTEM "file:///f">]><rss/>
\*   SpacedDoctype    <!DOCTYPE r [<!ENTITY x SYSTEM "file:///f">] ><rss/>
\*   BracketDoctype   <!DOCTYPE r [<!ENTITY x "a]b">]><rss/>
NoDoctype == <<"c", ">">>
PlainDoctype == <<"D", "c", ">", "c", ">">>
SubsetDoctype == <<"D", "c", "[", "c", ">", "]", ">", "c", ">">>
SpacedDoctype == <<"D", "c", "[", "c", ">", "]", "c", ">", "c", ">">>
BracketDoctype == <<"D", "c", "[", "c", "]", "c", ">", "]", ">", "c", ">">>
Texts == {NoDoctype, PlainDoctype, SubsetDoctype, SpacedDoctype, BracketDoctype}

\* First position from i on that holds a character of stop, or Len(s) + 1.
RECURSIVE scan(_, _, _)
scan(s, i, stop) ==
    IF i > Len(s) \/ s[i] \in stop THEN i ELSE scan(s, i + 1, stop)

\* Last position of the match of <!DOCTYPE[^>[]*(\[[^]]*\])?> that starts
\* at the "D" of position i, or 0 when there is none.  Both stars are
\* followed by a character outside their class, so only the longest run
\* can match.
doctype_match(s, i) ==
    LET j == scan(s, i + 1, {">", "["}) IN
    IF j > Len(s) THEN 0
    ELSE IF s[j] = ">" THEN j
    ELSE LET k == scan(s, j + 1, {"]"}) IN
         IF k + 1 <= Len(s) /\ s[k + 1] = ">" THEN k + 1 ELSE 0

\* re.sub(pattern, '', s, flags=re.IGNORECASE) from position i on.
RECURSIVE re_sub(_, _)
re_sub(s, i) ==
    IF i > Len(s) THEN <<>>
    ELSE IF s[i] = "D" /\ doctype_match(s, i) > 0
         THEN re_sub(s, doctype_match(s, i) + 1)
         ELSE <<s[i]>> \o re_sub(s, i + 1)

\* What feedparser.parse does with its argument: a result with entries, a
\* result without, or an exception.
Lenient == {"entries", "empty", "raises"}

\* xml_content: None, a str, bytes that are or are not valid UTF-8, or an
\* object that is no text at all.
XmlContents ==
    {None}
    \cup {Some([type |-> "str", text |-> t, utf8 |-> TRUE]) : t \in Texts}
    \cup {Some([type |-> "bytes", text |-> t, utf8 |-> u]) :
             t \in Texts, u \in BOOLEAN}
    \cup {Some([type |-> "other", text |-> <<>>, utf8 |-> TRUE])}

\* The hardened parser (lines 219-224) refuses a text that still holds a
\* DOCTYPE, and a text that is not well-formed.
hardened_parse(cleaned, wellformed) ==
    IF \E i \in 1..Len(cleaned) : cleaned[i] = "D" THEN "raises"
    ELSE IF wellformed THEN "tree" ELSE "raises"

\* Variant: no handler around the cascade.
outer_except_missing(c) == c

\* except Exception: return None (lines 235-237)
outer_except(c) ==
    IF c.exc THEN [c EXCEPT !.exc = FALSE, !.ret = None] ELSE c

InitParse ==
    /\ \E x \in XmlContents, l1 \in Lenient, wf \in BOOLEAN,
          l3 \in Lenient, l4 \in Lenient :
          call = [fn |-> "_safe_parse_feed", xml_content |-> x,
                  stage1 |-> l1, wellformed |-> wf, stage3 |-> l3,
                  stage4 |-> l4, pc |-> "call", cleaned_content |-> None,
                  attempted |-> {}, raised |-> {}, exc |-> FALSE,
                  ret |-> None]
    /\ config = [AI_ERROR_THRESHOLD |-> 1, AI_PROVIDER_TYPE |-> "openai",
                 prompt_renders |-> TRUE]
    /\ ai = [active |-> FALSE, error_count |-> 0, consecutive_errors |-> 0,
             stats |-> [ai_used |-> 0, ai_errors |-> 0, token_usage |-> 0]]
    /\ task = [t \in Tasks |-> [pc |-> "idle", result |-> "none"]]
    /\ requests = 0
    /\ history = <<>>
    /\ feed_status = <<>> /\ feed_errors = <<>> /\ session_closed = FALSE
    /\ on_session_recreate = FALSE /\ fetch = <<>>
    /\ feed_content = None /\ pos = 1 /\ seen_guids = {} /\ entries = <<>>
    /\ ppc = "done"

\* The result of the lenient parse of stage n.
Parsed(n, l) == Some([stage |-> n, entries |-> l])

\* lines 193-194
SafeParseCall ==
    /\ call.pc = "call"
    /\ call' = IF call.xml_content = None
               THEN [call EXCEPT !.pc = "done"]
               ELSE [call EXCEPT !.pc = "stage1"]

\* lines 197-202: the direct lenient parse
SafeParseStage1 ==
    /\ call.pc = "stage1"
    /\ LET c == [call EXCEPT !.attempted = @ \cup {1}] IN
       call' =
         CASE call.stage1 = "entries" ->
                [c EXCEPT !.pc = "done", !.ret = Parsed(1, "entries")]
           [] call.stage1 = "empty" -> [c EXCEPT !.pc = "stage2"]
           [] OTHER -> [c EXCEPT !.pc = "stage2", !.raised = @ \cup {1}]

\* lines 205-216: decode and strip the DOCTYPE.  bytes decode as UTF-8 or,
\* failing that, as latin-1, which takes every byte; re.sub raises a
\* TypeError for an object that is neither.
SafeParseStage2 ==
    /\ call.pc = "stage2"
    /\ LET c == [call EXCEPT !.attempted = @ \cup {2}]
           x == call.xml_content[1] IN
       call' =
         IF x.type = "other"
         THEN outer_except([c EXCEPT !.pc = "done", !.raised = @ \cup {2},
                                     !.exc = TRUE])
         ELSE [c EXCEPT !.pc = "stage3",
                        !.cleaned_content = Some(re_sub(x.text, 1))]

\* lines 218-231: the hardened parse, and the lenient parse of its tree
SafeParseStage3 ==
    /\ call.pc = "stage3"
    /\ LET c == [call EXCEPT !.attempted = @ \cup {3}] IN
       call' =
         IF hardened_parse(call.cleaned_content[1], call.wellformed) = "raises"
              \/ call.stage3 = "raises"
         THEN [c EXCEPT !.pc = "stage4", !.raised = @ \cup {3}]
         ELSE [c EXCEPT !.pc = "done", !.ret = Parsed(3, call.stage3)]

\* line 234: the lenient parse of the cleaned text
SafeParseStage4 ==
    /\ call.pc = "stage4"
    /\ LET c == [call EXCEPT !.attempted = @ \cup {4}, !.pc = "done"] IN
       call' =
         IF call.stage4 = "raises"
         THEN outer_except([c EXCEPT !.raised = @ \cup {4}, !.exc = TRUE])
         ELSE [c EXCEPT !.ret = Parsed(4, call.stage4)]

NextParse ==
    \/ SafeParseCall
    \/ SafeParseStage1
    \/ SafeParseStage2
    \/ SafeParseStage3
    \/ SafeParseStage4

SpecParse ==
    InitParse /\ [][NextParse /\ UNCHANGED <<aiVars, fetchVars, entryVars>>]_vars

\* ------------------------------------------- AsyncRSSParser: parse_entries

\* An entry's guid attribute: missing, a string or a number.
NoGuid == [kind |-> "none", text |-> ""]
StrGuid(t) == [kind |-> "str", text |-> t]
IntGuid(t) == [kind |-> "int", text |-> t]

\* Raw entries.  malformed: "not_mapping" makes _generate_entry_guid raise
\* (no guid attribute and no .get), "bad_summary" makes the field
\* extraction after the guid raise (re.sub on a non-string, line 258).
ExplicitEntries ==
    [guid : {StrGuid("7"), IntGuid("7")}, link : {"a"}, title : {"b", " c "},
     published : {""}, updated : {""}, malformed : {"no", "bad_summary"}]
HashedEntries ==
    {[guid |-> NoGuid, link |-> lt[1], title |-> lt[2], published |-> "",
      updated |-> "", malformed |-> m] :
        lt \in {<<"a", "b">>, <<"ab", "">>, <<"a", "">>},
        m \in {"no", "bad_summary"}}
    \cup {[guid |-> NoGuid, link |-> "a", title |-> "b", published |-> "",
           updated |-> "", malformed |-> "not_mapping"]}
RawEntries == ExplicitEntries \cup HashedEntries

RECURSIVE SeqsUpTo(_, _)
SeqsUpTo(S, n) ==
    IF n = 0 THEN {<<>>}
    ELSE LET shorter == SeqsUpTo(S, n - 1) IN
         shorter \cup {Append(q, x) : q \in {r \in shorter : Len(r) = n - 1}, x \in S}

\* Python truthiness of the guid attribute.
truthy(g) == g.kind # "none" /\ g.text # "" /\ ~(g.kind = "int" /\ g.text = "0")

\* hashlib.md5(...).hexdigest(): one digest per input text, never the text
\* of an explicit guid of RawEntries.
md5(text) == "md5:" \o text

\* _generate_entry_guid; None when it raises.
generate_entry_guid(entry) ==
    IF truthy(entry.guid) THEN Some(entry.guid.text)
    ELSE IF entry.malformed = "not_mapping" THEN None
    ELSE Some(md5(entry.link \o entry.title \o entry.published \o entry.updated))

\* _clean_text on the titles of RawEntries.
clean_text(text) == IF text = " c " THEN "c" ELSE text

\* The dict of lines 267-276 (fields the guid does not depend on left out).
entry_data(entry, guid) ==
    [guid |-> guid, title |-> clean_text(entry.title), link |-> entry.link]

\* Variant: the seen-guid test is dropped.
loop_body_no_dedup(acc, entry) ==
    LET g == generate_entry_guid(entry) IN
    IF g = None THEN acc
    ELSE LET seen == acc.seen \cup {g[1]} IN
         IF entry.malformed = "bad_summary" THEN [acc EXCEPT !.seen = seen]
         ELSE [seen |-> seen, entries |-> Append(acc.entries, entry_data(entry, g[1]))]

\* One iteration of the for loop (lines 248-280) on acc = seen_guids, entries.
loop_body(acc, entry) ==
    LET g == generate_entry_guid(entry) IN
    IF g = None THEN acc
    ELSE IF g[1] \in acc.seen THEN acc
    ELSE LET seen == acc.seen \cup {g[1]} IN
         IF entry.malformed = "bad_summary" THEN [acc EXCEPT !.seen = seen]
         ELSE [seen |-> seen, entries |-> Append(acc.entries, entry_data(entry, g[1]))]

InitEntries ==
    /\ feed_content \in {None} \cup {Some(q) : q \in SeqsUpTo(RawEntries, MaxEntries)}
    /\ pos = 1
    /\ seen_guids = {}
    /\ entries = <<>>
    /\ ppc = "call"

\* parse_entries up to the loop (lines 241-246).
ParseEntriesCall ==
    /\ ppc = "call"
    /\ ppc' = IF feed_content = None THEN "done" ELSE "loop"
    /\ UNCHANGED <<feed_content, pos, seen_guids, entries>>

\* The loop handles the entry at pos.
ParseEntry ==
    /\ ppc = "loop"
    /\ pos <= Len(feed_content[1])
    /\ LET acc == loop_body([seen |-> seen_guids, entries |-> entries],
                            feed_content[1][pos]) IN
        /\ seen_guids' = acc.seen
        /\ entries' = acc.entries
    /\ pos' = pos + 1
    /\ UNCHANGED <<feed_content, ppc>>

\* The loop is over; parse_entries returns entries (lines 282-283).
ParseEntriesReturn ==
    /\ ppc = "loop"
    /\ pos > Len(feed_content[1])
    /\ ppc' = "done"
    /\ UNCHANGED <<feed_content, pos, seen_guids, entries>>

NextEntries == ParseEntriesCall \/ ParseEntry \/ ParseEntriesReturn

InitEntriesOnly ==
    /\ InitEntries
    /\ config = [AI_ERROR_THRESHOLD |-> 1, AI_PROVIDER_TYPE |-> "openai",
                 prompt_renders |-> TRUE]
    /\ ai = [active |-> FALSE, error_count |-> 0, consecutive_errors |-> 0,
             stats |-> [ai_used |-> 0, ai_errors |-> 0, token_usage |-> 0]]
    /\ task = [t \in Tasks |-> [pc |-> "idle", result |-> "none"]]
    /\ requests = 0
    /\ history = <<>>
    /\ feed_status = <<>> /\ feed_errors = <<>> /\ session_closed = FALSE
    /\ on_session_recreate = FALSE /\ fetch = <<>>
    /\ call = None

SpecEntries ==
    InitEntriesOnly /\ [][NextEntries /\ UNCHANGED <<aiVars, fetchVars, call>>]_vars

\* ---------------------------------- AsyncRSSParser: _extract_image_url

MAX_ENCLOSURES == 20

\* A URL, by its first four characters and the rest.  The rest names the
\* place in the entry the URL stands at; "" is the empty string.
Url(first4, rest) == [first4 |-> first4, rest |-> rest]
EmptyStr == Url("", "")

\* Python truthiness of an optional string.
truthy_str(u) == u # None /\ u[1] # EmptyStr

\* str(url).startswith('http')
startswith_http(u) == u[1].first4 = "http"

\* x.lower() for the media types drawn here.
lower(t) == IF t = "Image/PNG" THEN "image/png" ELSE t

\* t.startswith('image/')
startswith_image(t) == t \in {"image/jpeg", "image/png"}

\* Variant: the whole list is scanned.
first_max_enclosures_all(l) == l

\* l[:self.MAX_ENCLOSURES]
first_max_enclosures(l) ==
    SelectSeq(l, LAMBDA item : item.at <= MAX_ENCLOSURES)

\* The URLs an attribute named tag may hold: none, one that begins with
\* http and one that does not.
Urls3(tag) == {None, Some(Url("http", tag)), Some(Url("/img", tag))}

MediaItems(p) ==
    {[at |-> p, type |-> t, url |-> u] :
        t \in {"image/jpeg", "Image/PNG", "video/mp4", ""},
        u \in Urls3("media_content" \o ToString(p))}

\* url or href or link of an enclosure
LinkSets(tag) ==
    {[url |-> Some(Url("http", tag \o ".url")), href |-> None, link |-> None],
     [url |-> Some(Url("http", tag \o ".url")),
      href |-> Some(Url("http", tag \o ".href")), link |-> None],
     [url |-> Some(Url("/img", tag \o ".url")),
      href |-> Some(Url("http", tag \o ".href")), link |-> None],
     [url |-> Some(EmptyStr),
      href |-> Some(Url("http", tag \o ".href")), link |-> None],
     [url |-> None, href |-> Some(Url("http", tag \o ".href")), link |-> None],
     [url |-> None, href |-> None, link |-> Some(Url("http", tag \o ".link"))],
     [url |-> None, href |-> None, link |-> None]}

EnclosureItems(p) ==
    {[at |-> p, type |-> t[1], mime_type |-> t[2], links |-> ls] :
        t \in {<<"image/jpeg", "">>, <<"", "image/png">>,
               <<"audio/mpeg", "image/png">>, <<"", "">>},
        ls \in LinkSets("enclosures" \o ToString(p))}

ThumbnailItems(p) ==
    {[at |-> p, url |-> u] : u \in Urls3("media_thumbnail" \o ToString(p))}

\* The items a list attribute may hold at position p.
ItemsAt(source, p) ==
    CASE source = "media_content" -> MediaItems(p)
      [] source = "enclosures" -> EnclosureItems(p)
      [] source = "media_thumbnail" -> ThumbnailItems(p)

\* The lists of the attribute source with at most n items, at positions
\* from ps, in that order.
RECURSIVE ListsFrom(_, _, _)
ListsFrom(source, ps, n) ==
    IF ps = <<>> \/ n = 0 THEN {<<>>}
    ELSE ListsFrom(source, Tail(ps), n)
         \cup {<<x>> \o l : x \in ItemsAt(source, Head(ps)),
                            l \in ListsFrom(source, Tail(ps), n - 1)}

ListsOf(source) ==
    ListsFrom(source, <<1, MAX_ENCLOSURES, MAX_ENCLOSURES + 1>>, MaxItems)

\* getattr(x, 'url', None) or getattr(x, 'href', None) or getattr(x, 'link', None)
first_truthy(ls) ==
    IF truthy_str(ls.url) THEN ls.url
    ELSE IF truthy_str(ls.href) THEN ls.href
    ELSE IF truthy_str(ls.link) THEN ls.link
    ELSE None

\* url and str(url).startswith('http')
qualifies(u) == truthy_str(u) /\ startswith_http(u)

\* The URL a media_content item gives, or None (lines 646-650).
media_url(item) ==
    IF startswith_image(lower(item.type)) /\ qualifies(item.url)
    THEN item.url ELSE None

\* The URL an enclosure gives, or None (lines 662-677).
enclosure_url(item) ==
    LET enc_type == lower(IF item.type # "" THEN item.type ELSE item.mime_type) IN
    IF enc_type # "" /\ startswith_image(enc_type)
          /\ qualifies(first_truthy(item.links))
    THEN first_truthy(item.links) ELSE None

\* The URL a media_thumbnail item gives, or None (lines 689-691).
thumbnail_url(item) == IF qualifies(item.url) THEN item.url ELSE None

\* The URL an item of the attribute source gives, or None.
item_url(source, item) ==
    CASE source = "media_content" -> media_url(item)
      [] source = "enclosures" -> enclosure_url(item)
      [] source = "media_thumbnail" -> thumbnail_url(item)

\* The first URL that the items of l from the i-th on give, or None.
RECURSIVE first_url(_, _, _)
first_url(source, l, i) ==
    IF i > Len(l) THEN None
    ELSE IF item_url(source, l[i]) # None THEN item_url(source, l[i])
    ELSE first_url(source, l, i + 1)

structured_fields == <<"image", "image_url", "thumbnail", "og:image", "media:content">>

\* The values a structured field may hold: a str, a dict, a list whose
\* first item is a str or a dict, an empty list, or something else.
FieldValues(field) ==
    {[kind |-> k, links |-> ls] :
        k \in {"dict", "list_dict"}, ls \in LinkSets(field)}
    \cup {[kind |-> k,
           links |-> [url |-> Some(Url(h, field)), href |-> None, link |-> None]] :
        k \in {"str", "list_str"}, h \in {"http", "/img"}}
    \cup {[kind |-> k, links |-> [url |-> None, href |-> None, link |-> None]] :
        k \in {"list_empty", "int"}}

\* The structured fields of an entry, as a map from the names that are
\* there to their values: at most n of the fields from the i-th on.
RECURSIVE FieldMaps(_, _)
FieldMaps(i, n) ==
    IF i > Len(structured_fields) \/ n = 0 THEN {<<>>}
    ELSE FieldMaps(i + 1, n)
         \cup {(structured_fields[i] :> v) @@ e :
                  v \in FieldValues(structured_fields[i]),
                  e \in FieldMaps(i + 1, n - 1)}

\* The URL a structured field value gives, or None (lines 700-714).
field_url(v) ==
    IF v.kind \in {"str", "list_str"}
    THEN IF startswith_http(v.links.url) THEN v.links.url ELSE None
    ELSE IF v.kind \in {"dict", "list_dict"}
         THEN IF qualifies(first_truthy(v.links)) THEN first_truthy(v.links) ELSE None
         ELSE None

RECURSIVE first_field_url(_, _)
first_field_url(e, i) ==
    IF i > Len(structured_fields) THEN None
    ELSE LET f == structured_fields[i] IN
         IF f \in DOMAIN e /\ field_url(e[f]) # None THEN field_url(e[f])
         ELSE first_field_url(e, i + 1)

\* An HTML text is given, as far as the mining goes, by the src of its
\* first relevant image element when it has one.  A text in which every tag
\* has been removed holds no element.
clean_html(html) == [html EXCEPT !.img = None]

\* A base URL is named after the object it comes from; "" is no base URL.
get_feed_base_url(name, has_link) == IF has_link THEN name ELSE ""

\* An absolute URL is kept; a relative one is joined to base_url, whose
\* name the result carries, and comes out empty without a base URL.
normalize_image_url(url, base_url) ==
    IF startswith_http(url) THEN url
    ELSE IF base_url = "" THEN Some(EmptyStr)
    ELSE Some(Url("http", base_url))

\* The first relevant image of the text whose URL normalises to something.
extract_image_from_html(html, base_url) ==
    IF html.img = None THEN None
    ELSE LET normalized_url == normalize_image_url(html.img, base_url)
         IN  IF truthy_str(normalized_url) THEN normalized_url ELSE None

InitImage ==
    /\ \E l \in BOOLEAN :
          call = [fn |-> "_extract_image_url", pc |-> "media_content",
                  read |-> "none", value |-> None, ret |-> None,
                  link |-> l, image_url |-> None, description |-> None,
                  feed_link |-> FALSE, fallback |-> None]
    /\ config = [AI_ERROR_THRESHOLD |-> 1, AI_PROVIDER_TYPE |-> "openai",
                 prompt_renders |-> TRUE]
    /\ ai = [active |-> FALSE, error_count |-> 0, consecutive_errors |-> 0,
             stats |-> [ai_used |-> 0, ai_errors |-> 0, token_usage |-> 0]]
    /\ task = [t \in Tasks |-> [pc |-> "idle", result |-> "none"]]
    /\ requests = 0
    /\ history = <<>>
    /\ feed_status = <<>> /\ feed_errors = <<>> /\ session_closed = FALSE
    /\ on_session_recreate = FALSE /\ fetch = <<>>
    /\ feed_content = None /\ pos = 1 /\ seen_guids = {} /\ entries = <<>>
    /\ ppc = "done"

\* _extract_image_url reads one attribute of the entry.
Read(source, value) ==
    /\ call.pc = source /\ call.read = "none"
    /\ call' = [call EXCEPT !.read = source, !.value = value]

\* It scans what it read: the method returns url when there is one and
\* goes on to the source next otherwise.
Scan(source, url, next) ==
    /\ call.pc = source /\ call.read = source
    /\ call' = IF url # None
               THEN [call EXCEPT !.ret = url, !.pc = "return"]
               ELSE [call EXCEPT !.pc = next, !.read = "none", !.value = None]

\* line 643
ReadMediaContent ==
    /\ call.pc = "media_content" /\ call.read = "none"
    /\ \E has \in BOOLEAN, l \in ListsOf("media_content") :
           /\ ~has => l = <<>>
           /\ Read("media_content", [has |-> has, items |-> l])

\* lines 644-652
ScanMediaContent ==
    Scan("media_content",
         first_url("media_content", first_max_enclosures(call.value.items), 1),
         "enclosures")

\* lines 655-658; an attribute that is no list is taken as a list of one.
ReadEnclosures ==
    /\ call.pc = "enclosures" /\ call.read = "none"
    /\ \E has \in BOOLEAN, is_list \in BOOLEAN, l \in ListsOf("enclosures") :
           /\ ~has => l = <<>> /\ is_list
           /\ ~is_list => Len(l) = 1 /\ l[1].at = 1
           /\ Read("enclosures", [has |-> has, is_list |-> is_list, items |-> l])

\* lines 660-679
ScanEnclosures ==
    Scan("enclosures",
         first_url("enclosures", first_max_enclosures(call.value.items), 1),
         "media_thumbnail")

\* lines 682-685
ReadMediaThumbnail ==
    /\ call.pc = "media_thumbnail" /\ call.read = "none"
    /\ \E has \in BOOLEAN, is_list \in BOOLEAN, l \in ListsOf("media_thumbnail") :
           /\ ~has => l = <<>> /\ is_list
           /\ ~is_list => Len(l) = 1 /\ l[1].at = 1
           /\ Read("media_thumbnail",
                   [has |-> has, is_list |-> is_list, items |-> l])

\* lines 687-693
ScanMediaThumbnail ==
    Scan("media_thumbnail",
         first_url("media_thumbnail", first_max_enclosures(call.value.items), 1),
         "structured")

\* lines 696-699
ReadStructured ==
    /\ call.pc = "structured" /\ call.read = "none"
    /\ \E e \in FieldMaps(1, MaxItems) : Read("structured", [fields |-> e])

\* lines 700-716
ScanStructured ==
    Scan("structured", first_field_url(call.value.fields, 1), "description")

\* lines 719-722
ReadDescription ==
    /\ call.pc = "description" /\ call.read = "none"
    /\ \E has \in BOOLEAN, description \in {[img |-> src] : src \in Urls3("description")} :
           /\ ~has => description.img = None
           /\ LET base_url == get_feed_base_url("link", call.link)
                  found == IF has
                           THEN extract_image_from_html(description, base_url)
                           ELSE None
              IN  call' = [call EXCEPT
                              !.read = "description",
                              !.value = [has |-> has, found |-> found],
                              !.description = Some(description)]

\* lines 723-724
ScanDescription == Scan("description", call.value.found, "content")

\* lines 727-731
ReadContent ==
    /\ call.pc = "content" /\ call.read = "none"
    /\ \E content \in BOOLEAN, found \in {None, Some(Url("http", "content"))} :
           /\ ~content => found = None
           /\ Read("content", [has |-> content, found |-> found])

\* lines 732-736
ScanContent == Scan("content", call.value.found, "return")

\* parse_entries, lines 258-265: the entry's image_url. The fallback mines
\* the description from which the tags were removed, and fallback records
\* the base URL it was given.
EntryImageUrl ==
    /\ call.pc = "return"
    /\ \E feed_link \in BOOLEAN :
          LET link == call.link
              image_url == call.ret
              base_url == IF link THEN "link"
                          ELSE get_feed_base_url("feed", feed_link)
          IN  call' = IF image_url = None /\ link
                      THEN [call EXCEPT
                               !.pc = "done",
                               !.feed_link = feed_link,
                               !.fallback = Some(base_url),
                               !.image_url =
                                   extract_image_from_html(
                                       clean_html(call.description[1]),
                                       base_url)]
                      ELSE [call EXCEPT
                               !.pc = "done",
                               !.feed_link = feed_link,
                               !.image_url = image_url]

NextImage ==
    \/ ReadMediaContent \/ ScanMediaContent
    \/ ReadEnclosures \/ ScanEnclosures
    \/ ReadMediaThumbnail \/ ScanMediaThumbnail
    \/ ReadStructured \/ ScanStructured
    \/ ReadDescription \/ ScanDescription
    \/ ReadContent \/ ScanContent
    \/ EntryImageUrl

SpecImage ==
    InitImage /\ [][NextImage /\ UNCHANGED <<aiVars, fetchVars, entryVars>>]_vars

\* ------------------------------------------ AsyncRSSParser: image filters

\* The words the two filters look for.
Words == {"pixel", "icon", "logo", "spacer", "ad", "button", "border",
          "thumb", "mini", "avatar", "tracker", "counter"}

\* A text (an image URL, a CSS class) is given by the word of Words that it
\* contains, "" when it contains none; no word of Words contains another.
Containing == Words \cup {""}

\* any(bad in text.lower() for bad in words)
contains_any(text, words) == text \in words

\* A width or height attribute: None when the tag has none, else digits
\* (a number, or no digit at all) with or without other characters around:
\* "400" is Dim(Some(400), FALSE), "400px" is Dim(Some(400), TRUE), "abc" is
\* Dim(None, TRUE), "" is Dim(None, FALSE).
Dim(num, junk) == Some([num |-> num, junk |-> junk])
Dims == {None} \cup {Dim(n, j) : n \in {None, Some(50), Some(250), Some(400)},
                                 j \in BOOLEAN}

\* Python truthiness of the attribute.
truthy_dim(d) == d # None /\ d # Dim(None, FALSE)

\* int(d) raises ValueError.
int_raises(d) == d[1].junk \/ d[1].num = None

\* int(''.join(filter(str.isdigit, str(d)))) raises ValueError.
digits_raise(d) == d[1].num = None

\* _is_relevant_image(element, img_url), lines 338-360
is_relevant_image(c) ==
    IF contains_any(c.img_url, {"pixel", "icon", "logo", "spacer", "ad",
                                "button", "border"})
    THEN FALSE
    ELSE IF contains_any(c.class, {"icon", "logo", "ad", "thumb", "mini"})
    THEN FALSE
    ELSE IF truthy_dim(c.width) /\ truthy_dim(c.height)
    THEN IF int_raises(c.width) THEN TRUE
         ELSE IF c.width[1].num[1] < 300 THEN FALSE
         ELSE IF int_raises(c.height) THEN TRUE
         ELSE ~(c.height[1].num[1] < 200)
    ELSE TRUE

\* width = int(digits of width) if width else 0, with '0' for no attribute
digits_of(d) == IF d = None THEN 0 ELSE IF truthy_dim(d) THEN d[1].num[1] ELSE 0

\* _is_valid_image(img_tag, img_url), lines 549-585
is_valid_image(c) ==
    IF contains_any(c.img_url, {"pixel", "icon", "logo", "spacer", "ad",
                                "tracker", "counter"})
    THEN FALSE
    ELSE IF contains_any(c.class, {"icon", "logo", "ad", "thumb", "mini",
                                   "avatar", "button", "border"})
    THEN FALSE
    ELSE IF truthy_dim(c.width) /\ digits_raise(c.width) THEN TRUE
    ELSE IF truthy_dim(c.height) /\ digits_raise(c.height) THEN TRUE
    ELSE IF digits_of(c.width) >= 300 /\ digits_of(c.height) >= 200 THEN TRUE
    ELSE digits_of(c.width) = 0 /\ digits_of(c.height) = 0

InitFilter ==
    /\ \E fn \in {"_is_relevant_image", "_is_valid_image"},
          u \in Containing, cls \in Containing, w \in Dims, h \in Dims :
          call = [fn |-> fn, img_url |-> u, class |-> cls, width |-> w,
                  height |-> h, pc |-> "call", ret |-> FALSE]
    /\ config = [AI_ERROR_THRESHOLD |-> 1, AI_PROVIDER_TYPE |-> "openai",
                 prompt_renders |-> TRUE]
    /\ ai = [active |-> FALSE, error_count |-> 0, consecutive_errors |-> 0,
             stats |-> [ai_used |-> 0, ai_errors |-> 0, token_usage |-> 0]]
    /\ task = [t \in Tasks |-> [pc |-> "idle", result |-> "none"]]
    /\ requests = 0
    /\ history = <<>>
    /\ feed_status = <<>> /\ feed_errors = <<>> /\ session_closed = FALSE
    /\ on_session_recreate = FALSE /\ fetch = <<>>
    /\ feed_content = None /\ pos = 1 /\ seen_guids = {} /\ entries = <<>>
    /\ ppc = "done"

IsRelevantImage ==
    /\ call.pc = "call" /\ call.fn = "_is_relevant_image"
    /\ call' = [call EXCEPT !.pc = "done", !.ret = is_relevant_image(call)]

IsValidImage ==
    /\ call.pc = "call" /\ call.fn = "_is_valid_image"
    /\ call' = [call EXCEPT !.pc = "done", !.ret = is_valid_image(call)]

NextFilter == IsRelevantImage \/ IsValidImage

SpecFilter ==
    InitFilter /\ [][NextFilter /\ UNCHANGED <<aiVars, fetchVars, entryVars>>]_vars

\* -------------------------------------- AsyncRSSParser: extract_all_images

\* The elements of a page that the selectors match, in scan order, each
\* given by the image URL it carries, if any.
Pages ==
    SeqsUpTo({None, Some("a.png"), Some("b.png"), Some("c.png")}, MaxElements)

\* self._get_image_url(element, url), line 422: the class defines no method
\* of that name (it has _get_image_src and _normalize_image_url), so the
\* attribute lookup raises AttributeError.
get_image_url(element) == "AttributeError"

\* lines 419-426: the loop over the matched elements from the i-th on,
\* images being the list built so far; an exception ends it in the handler
\* of lines 428-430, which returns [].
RECURSIVE scan_elements(_, _, _)
scan_elements(page, i, images) ==
    IF i > Len(page) THEN images
    ELSE LET img_url == get_image_url(page[i]) IN
         IF img_url = "AttributeError" THEN <<>>
         ELSE IF img_url # None /\ \A k \in 1..Len(images) : images[k] # img_url[1]
              THEN scan_elements(page, i + 1, Append(images, img_url[1]))
              ELSE scan_elements(page, i + 1, images)

InitInventory ==
    /\ \E page \in Pages :
          call = [fn |-> "extract_all_images", page |-> page, pc |-> "call",
                  gets |-> 0, resp |-> "none", ret |-> <<>>]
    /\ config = [AI_ERROR_THRESHOLD |-> 1, AI_PROVIDER_TYPE |-> "openai",
                 prompt_renders |-> TRUE]
    /\ ai = [active |-> FALSE, error_count |-> 0, consecutive_errors |-> 0,
             stats |-> [ai_used |-> 0, ai_errors |-> 0, token_usage |-> 0]]
    /\ task = [t \in Tasks |-> [pc |-> "idle", result |-> "none"]]
    /\ requests = 0
    /\ history = <<>>
    /\ feed_status = <<>> /\ feed_errors = <<>> /\ session_closed = FALSE
    /\ on_session_recreate = FALSE /\ fetch = <<>>
    /\ feed_content = None /\ pos = 1 /\ seen_guids = {} /\ entries = <<>>
    /\ ppc = "done"

\* line 402: the GET is issued
AllImagesCall ==
    /\ call.pc = "call"
    /\ call' = [call EXCEPT !.pc = "get", !.gets = @ + 1]

\* lines 403-430: the GET ends, with the page or with an exception
AllImagesGetDone ==
    /\ call.pc = "get"
    /\ \E resp \in {"ok", "raises"} :
          call' = [call EXCEPT
                      !.pc = "done", !.resp = resp,
                      !.ret = IF resp = "ok" THEN scan_elements(call.page, 1, <<>>)
                              ELSE <<>>]

NextInventory == AllImagesCall \/ AllImagesGetDone

SpecInventory ==
    InitInventory
    /\ [][NextInventory /\ UNCHANGED <<aiVars, fetchVars, entryVars>>]_vars

\* ----------------------------------------- AsyncAI: _parse_text_response

\* patterns, lines 211-219: the first four have one group, the last three
\* have two.
NumPatterns == 7

\* What re.search finds for one pattern in the text: None, or the length of
\* each group's text once stripped.  The lengths drawn lie on both sides of
\* the two thresholds.
Matches(i) ==
    {None}
    \cup IF i <= 4
         THEN {Some(<<n>>) : n \in {5, 6}}
         ELSE {Some(<<n, m>>) : n \in {5, 6}, m \in {10, 11}}

\* A text, by what each pattern finds in it.
TextsByMatch ==
    {<<m1, m2, m3, m4, m5, m6, m7>> :
        m1 \in Matches(1), m2 \in Matches(2), m3 \in Matches(3),
        m4 \in Matches(4), m5 \in Matches(5), m6 \in Matches(6),
        m7 \in Matches(7)}

\* match and match.lastindex >= g
has_group(m, g) == m # None /\ Len(m[1]) >= g

\* lines 225-231: the first pattern from the i-th on whose group 1 is
\* longer than 5 characters, 0 when there is none.
RECURSIVE title_search(_, _)
title_search(text, i) ==
    IF i > NumPatterns THEN 0
    ELSE IF has_group(text[i], 1) /\ text[i][1][1] > 5 THEN i
    ELSE title_search(text, i + 1)

\* lines 235-241: the first pattern from the i-th on whose group 2 is
\* longer than 10 characters, 0 when there is none.
RECURSIVE desc_search(_, _)
desc_search(text, i) ==
    IF i > NumPatterns THEN 0
    ELSE IF has_group(text[i], 2) /\ text[i][1][2] > 10 THEN i
    ELSE desc_search(text, i + 1)

\* _parse_text_response(text), lines 208-261: for each field the pattern it
\* was taken from, 0 when it comes from the fallback segmentation.
parse_text_response(text) ==
    LET title_match == title_search(text, 1)
        desc_match == IF title_match # 0 THEN desc_search(text, 1) ELSE 0
    IN  IF title_match = 0 \/ desc_match = 0
        THEN [title |-> 0, description |-> 0]
        ELSE [title |-> title_match, description |-> desc_match]

InitText ==
    /\ \E text \in TextsByMatch :
          call = [fn |-> "_parse_text_response", text |-> text, pc |-> "call",
                  ret |-> [title |-> 0, description |-> 0]]
    /\ config = [AI_ERROR_THRESHOLD |-> 1, AI_PROVIDER_TYPE |-> "openai",
                 prompt_renders |-> TRUE]
    /\ ai = [active |-> FALSE, error_count |-> 0, consecutive_errors |-> 0,
             stats |-> [ai_used |-> 0, ai_errors |-> 0, token_usage |-> 0]]
    /\ task = [t \in Tasks |-> [pc |-> "idle", result |-> "none"]]
    /\ requests = 0
    /\ history = <<>>
    /\ feed_status = <<>> /\ feed_errors = <<>> /\ session_closed = FALSE
    /\ on_session_recreate = FALSE /\ fetch = <<>>
    /\ feed_content = None /\ pos = 1 /\ seen_guids = {} /\ entries = <<>>
    /\ ppc = "done"

ParseTextResponse ==
    /\ call.pc = "call"
    /\ call' = [call EXCEPT !.pc = "done", !.ret = parse_text_response(call.text)]

NextText == ParseTextResponse

SpecText ==
    InitText /\ [][NextText /\ UNCHANGED <<aiVars, fetchVars, entryVars>>]_vars

\* ---------------------------------- AsyncRSSParser: parse_entries properties

Input == IF feed_content = None THEN <<>> ELSE feed_content[1]

\* Positions of the input entries whose guid is g.
Holders(g) == {j \in 1..Len(Input) : generate_entry_guid(Input[j]) = Some(g)}

FirstHolder(g) == CHOOSE j \in Holders(g) : \A k \in Holders(g) : j <= k

\* C6: the list parse_entries returns has no two entries with one guid,
\* keeps source order, each of its entries is the one built from the
\* first input entry carrying that guid, and a guid whose first carrier is
\* well-formed is present.
C6_GuidDeduplication ==
    ppc = "done" =>
        /\ \A k, l \in 1..Len(entries) :
               k # l => entries[k].guid # entries[l].guid
        /\ \A k \in 1..Len(entries) :
               /\ Holders(entries[k].guid) # {}
               /\ entries[k] = entry_data(Input[FirstHolder(entries[k].guid)],
                                          entries[k].guid)
        /\ \A k, l \in 1..Len(entries) :
               k < l => FirstHolder(entries[k].guid) < FirstHolder(entries[l].guid)
        /\ \A j \in 1..Len(Input) :
               LET g == generate_entry_guid(Input[j]) IN
               (g # None /\ FirstHolder(g[1]) = j /\ Input[j].malformed = "no")
                   => \E k \in 1..Len(entries) : entries[k].guid = g[1]

\* Two entries with the explicit guid 7 (a number, then a string) and
\* different titles, then two guid-less entries with one content hash:
\* one entry each is returned, the first.
C6_Witness ==
    /\ ppc = "done"
    /\ Len(Input) = 3
    /\ Input[1].guid = IntGuid("7") /\ Input[2].guid = StrGuid("7")
    /\ Input[1].title # Input[2].title
    /\ Input[3].guid = NoGuid
    /\ Len(entries) = 2
    /\ entries[1].title = clean_text(Input[1].title)

RECURSIVE RunLoop(_, _)
\* The loop run over a whole list of entries.
RunLoop(acc, q) ==
    IF q = <<>> THEN acc ELSE RunLoop(loop_body(acc, Head(q)), Tail(q))

\* Entries whose processing raises nothing.
WellFormed(entry) == entry.malformed = "no"

\* C7 (as claimed): the returned list is the one parse_entries returns for
\* the feed without its failing entries.
C7_FailureIsolation ==
    ppc = "done" =>
        entries = RunLoop([seen |-> {}, entries |-> <<>>],
                          SelectSeq(Input, WellFormed)).entries

\* ------------------------------------------ AsyncRSSParser: fetch properties

\* A step in which coroutine f enters fetch_feed.
Enters(f) == fetch[f].pc = "idle" /\ fetch'[f] # fetch[f]

\* A step in which the pending GET of coroutine f ends with resp.
GetEnds(f, resp) ==
    fetch[f].pc = "get" /\ fetch'[f] # fetch[f] /\ fetch'[f].resp = resp

\* C8: fetch_feed(url) for a URL whose active flag is false returns absent
\* in the same step: no GET is issued, the recovery callback is not awaited
\* and the URL's error counter keeps its value.
C8_InactiveFeedSkipped ==
    [][\A f \in Fetchers :
          (Enters(f) /\ ~feed_status[fetch'[f].url]) =>
              /\ fetch'[f].pc = "idle"
              /\ fetch'[f].result = "absent"
              /\ fetch'[f].gets = 0
              /\ session_closed' = session_closed
              /\ feed_errors'[fetch'[f].url] = feed_errors[fetch'[f].url]]_vars

C8_Witness ==
    \E f \in Fetchers :
        /\ fetch[f].pc = "idle" /\ fetch[f].result = "absent"
        /\ fetch[f].resp = "none"
        /\ ~feed_status[fetch[f].url]
        /\ session_closed /\ on_session_recreate
        /\ get_error_count(fetch[f].url) = 0

\* C9 (as claimed): a GET that ends in a non-200 response or in a transport
\* error other than the retryable TLS one ends the call at once with absent
\* and leaves the URL's error count exactly one higher.
C9_TerminalFailuresCounted ==
    [][\A f \in Fetchers :
          \A resp \in {"non200", "client_os_error", "exception"} :
              GetEnds(f, resp) =>
                  /\ fetch'[f].pc = "idle"
                  /\ fetch'[f].result = "absent"
                  /\ feed_errors'[fetch[f].url] = feed_errors[fetch[f].url] + 1]_vars

\* C10: one fetch_feed call issues at most 3 GETs; a further GET comes only
\* after a GET that failed with the close-notify TLS error on an attempt
\* below the third, and after a sleep of retry_delay times that attempt's
\* number; a third attempt that fails returns absent; every call returns.
C10_RetryPolicy ==
    /\ [](\A f \in Fetchers : fetch[f].gets <= max_retries)
    /\ [][\A f \in Fetchers :
            /\ (fetch'[f].gets > fetch[f].gets /\ fetch[f].gets >= 1) =>
                   /\ fetch[f].pc = "sleeping"
                   /\ fetch[f].resp = "tls_close_notify"
                   /\ fetch[f].gets < max_retries
                   /\ fetch[f].wait = retry_delay * fetch[f].gets
            /\ (fetch[f].pc = "get" /\ fetch'[f].pc = "sleeping") =>
                   /\ fetch'[f].resp = "tls_close_notify"
                   /\ fetch'[f].wait = retry_delay * fetch[f].attempt
            /\ (fetch[f].pc = "get" /\ fetch[f].gets = max_retries
                    /\ fetch'[f] # fetch[f] /\ fetch'[f].resp # "ok200") =>
                   /\ fetch'[f].pc = "idle"
                   /\ fetch'[f].result = "absent"]_vars
    /\ \A f \in Fetchers : (fetch[f].pc # "idle") ~> (fetch[f].pc = "idle")

C10_Witness ==
    \E f \in Fetchers :
        /\ fetch[f].pc = "idle" /\ fetch[f].result = "absent"
        /\ fetch[f].resp = "tls_close_notify"
        /\ ~session_closed
        /\ get_error_count(fetch[f].url) = 1

C12_FeedStateDiscipline ==
    [][/\ \A u \in Urls :
            feed_errors'[u] < feed_errors[u] =>
                /\ feed_errors'[u] = 0
                /\ \A v \in Urls \ {u} : feed_errors'[v] = feed_errors[v]
                /\ feed_status' = feed_status
                /\ fetch' = fetch
       /\ \A f \in Fetchers :
            /\ fetch'[f] # fetch[f] =>
                   /\ feed_status' = feed_status
                   /\ \A v \in Urls \ {fetch'[f].url} :
                          feed_errors'[v] = feed_errors[v]
            /\ GetEnds(f, "ok200") => feed_errors' = feed_errors
       /\ feed_status' # feed_status =>
              /\ Cardinality({u \in Urls : feed_status'[u] # feed_status[u]}) = 1
              /\ feed_errors' = feed_errors
      ]_vars

C12_Witness ==
    \E f \in Fetchers, v \in Urls :
        /\ fetch[f].pc = "idle" /\ fetch[f].result = "feed"
        /\ fetch[f].resp = "ok200"
        /\ feed_errors[fetch[f].url] = 1
        /\ v # fetch[f].url /\ feed_errors[v] = 0
        /\ ~feed_status[v]

\* C13 (as claimed): at no time are more than 5 fetch_feed calls between
\* the issue of their GET and their return.
C13_BoundedConcurrency ==
    Cardinality({f \in DOMAIN fetch : fetch[f].pc \in {"get", "sleeping"}})
        <= semaphore

\* ----------------------------- AsyncRSSParser: _safe_parse_feed properties

\* C14 (amended): _safe_parse_feed lets no exception out; a first lenient
\* parse with an entry is returned with no later stage attempted; stage 2
\* is attempted only when the first parse raised or gave no entry, stage 3
\* only when stage 2 did not raise, stage 4 only when stage 3 raised; and
\* the result is absent only if the input is None, or stage 2 raised, or
\* the first parse gave no entry (raising or not) and stages 3 and 4 raised.
C14_SafeParseCascade ==
    call.pc = "done" =>
        /\ ~call.exc
        /\ (call.xml_content # None /\ call.stage1 = "entries") =>
               /\ call.ret = Some([stage |-> 1, entries |-> "entries"])
               /\ call.attempted = {1}
        /\ 2 \in call.attempted => call.stage1 # "entries"
        /\ 3 \in call.attempted =>
               2 \in call.attempted /\ 2 \notin call.raised
        /\ 4 \in call.attempted => 3 \in call.raised
        /\ call.ret = None =>
               \/ call.xml_content = None
               \/ 2 \in call.raised
               \/ {3, 4} \subseteq call.raised /\ call.stage1 # "entries"

C14_Witness ==
    /\ call.pc = "done" /\ call.ret = None
    /\ call.xml_content # None
    /\ call.stage1 = "empty"
    /\ call.attempted = {1, 2, 3, 4}
    /\ call.raised = {3, 4}

\* C14 (as claimed): the result is absent only if every parsing stage of
\* the cascade raised.
C14_AbsentOnlyIfEveryStageRaises ==
    (call.pc = "done" /\ call.ret = None) => {1, 3, 4} \subseteq call.raised

\* C15 (as claimed): once stage 2 has run on a text, the cleaned text that
\* the later stages work on holds no DOCTYPE declaration.
C15_DoctypeRemoved ==
    call.cleaned_content # None =>
        \A i \in 1..Len(call.cleaned_content[1]) :
            call.cleaned_content[1][i] # "D"

\* --------------------------- AsyncRSSParser: _extract_image_url properties

\* The first present of url, href and link.
FirstPresent(ls) ==
    IF ls.url \notin {None, Some(EmptyStr)} THEN ls.url
    ELSE IF ls.href \notin {None, Some(EmptyStr)} THEN ls.href
    ELSE ls.link

BeginsWithHttp(u) == u # None /\ u[1].first4 = "http"

ImageTyped(t) == t \in {"image/jpeg", "image/png", "Image/PNG"}

\* The URL with which an item of a list source qualifies, or None.
Candidate(source, item) ==
    CASE source = "media_content" ->
            IF ImageTyped(item.type) /\ BeginsWithHttp(item.url)
            THEN item.url ELSE None
      [] source = "enclosures" ->
            IF ImageTyped(IF item.type = "" THEN item.mime_type ELSE item.type)
                  /\ BeginsWithHttp(FirstPresent(item.links))
            THEN FirstPresent(item.links) ELSE None
      [] source = "media_thumbnail" ->
            IF BeginsWithHttp(item.url) THEN item.url ELSE None

\* The source read after a list source.
After(source) ==
    CASE source = "media_content" -> "enclosures"
      [] source = "enclosures" -> "media_thumbnail"
      [] source = "media_thumbnail" -> "structured"

\* A step in which _extract_image_url scans the source it has read.
Scans(source) == call.pc = source /\ call.read = source /\ call' # call

C22_ImageFallback ==
    (call.pc = "done" /\ call.ret = None) =>
        /\ call.fallback = Some(IF call.link THEN "link"
                                ELSE IF call.feed_link THEN "feed" ELSE "")
        /\ (/\ ~call.link /\ call.feed_link
            /\ call.description[1].img # None)
              => call.image_url = Some(Url("http", "feed"))

\* ------------------------------------- AsyncRSSParser: image filter properties

\* The dimension is a plain number.
Declared(d) == d # None /\ d[1].num # None /\ ~d[1].junk

\* The dimension is not given, or holds no number at all.
AbsentOrUnparseable(d) == d = None \/ d[1].num = None

\* C17 (as claimed): each filter rejects a candidate whose URL or class
\* contains one of the twelve words, rejects one whose width and height are
\* both declared with width < 300 or height < 200, and accepts one without
\* such a word when a dimension is absent or unparseable.
C17_ImageValidityFilter ==
    call.pc = "done" =>
        /\ (call.img_url \in Words \/ call.class \in Words) => ~call.ret
        /\ (/\ Declared(call.width) /\ Declared(call.height)
            /\ (call.width[1].num[1] < 300 \/ call.height[1].num[1] < 200))
               => ~call.ret
        /\ (/\ call.img_url \notin Words /\ call.class \notin Words
            /\ (AbsentOrUnparseable(call.width)
                   \/ AbsentOrUnparseable(call.height)))
               => call.ret

\* ------------------------------ AsyncRSSParser: extract_all_images properties

\* The URLs of the elements of page from position i on, each once, in the
\* order of their first occurrence; seen are those met before.
RECURSIVE FirstSeen(_, _, _)
FirstSeen(page, i, seen) ==
    IF i > Len(page) THEN <<>>
    ELSE IF page[i] = None \/ page[i][1] \in seen
         THEN FirstSeen(page, i + 1, seen)
         ELSE <<page[i][1]>> \o FirstSeen(page, i + 1, seen \cup {page[i][1]})

\* C18 (as claimed): extract_all_images issues one GET and, when the page
\* arrives, returns the image URL of every matched element, each once, in
\* first-seen order: a non-empty list when an element carries an image.
C18_AllImagesInventory ==
    (call.pc = "done" /\ call.resp = "ok") =>
        /\ call.gets = 1
        /\ call.ret = FirstSeen(call.page, 1, {})

\* ------------------------------------------------- AsyncAI: properties

HardOutcomes == {"render_error", "provider_error", "parse_failed"}

RECURSIVE HardRun(_)
\* Number of hard failures at the end of h with no other outcome between.
HardRun(h) ==
    IF h = <<>> THEN 0
    ELSE IF h[Len(h)] \in HardOutcomes THEN 1 + HardRun(SubSeq(h, 1, Len(h) - 1))
    ELSE 0

Count(h, o) == Cardinality({i \in 1..Len(h) : h[i] = o})

\* A step in which an enhance() call returns with outcome o.
Returns(o) == history' = Append(history, o)

\* A step that enters enhance(): no awaited call is resumed by it.
EntersEnhance ==
    /\ task' # task \/ history' # history
    /\ \A u \in Tasks : task[u].pc = "awaiting" => task'[u] = task[u]

\* C1: once `threshold` consecutive hard failures have occurred,
\* is_available() is false and no later step, including the successful
\* return of a call that was already awaiting, makes it true again.
C1_BreakerStaysTripped ==
    [][(HardRun(history') >= config.AI_ERROR_THRESHOLD \/ ~is_available(ai))
        => ~is_available(ai')]_vars

C1_Witness ==
    /\ Len(history) >= 2
    /\ history[Len(history)] = "success"
    /\ HardRun(SubSeq(history, 1, Len(history) - 1)) >= config.AI_ERROR_THRESHOLD
    /\ ~is_available(ai)

\* C2: an enhance() call that ends in an exception or a failed parse
\* returns absent, adds exactly one to error_count, consecutive_errors and
\* the error stat, and leaves active false exactly when the new
\* consecutive_errors has reached the threshold (otherwise active is kept).
C2_HardFailureAccounting ==
    [][\A o \in HardOutcomes : Returns(o) =>
          /\ \A t \in Tasks : task'[t] # task[t] =>
                 task'[t] = [pc |-> "idle", result |-> "absent"]
          /\ ai'.error_count = ai.error_count + 1
          /\ ai'.consecutive_errors = ai.consecutive_errors + 1
          /\ ai'.stats.ai_errors = ai.stats.ai_errors + 1
          /\ ai'.stats.ai_used = ai.stats.ai_used
          /\ ai'.active = IF ai'.consecutive_errors >= config.AI_ERROR_THRESHOLD
                          THEN FALSE ELSE ai.active]_vars

C2_Witness ==
    /\ history # <<>>
    /\ history[Len(history)] = "parse_failed"
    /\ config.AI_ERROR_THRESHOLD = 2
    /\ ai.consecutive_errors = 2
    /\ ~ai.active

\* C3: a quality rejection returns absent, adds one to the error stat,
\* does not advance consecutive_errors or error_count and keeps active; a
\* history made of quality rejections only leaves the enhancer available.
C3_SoftRejection ==
    /\ [][Returns("low_quality") =>
            /\ \A t \in Tasks : task'[t] # task[t] =>
                   task'[t] = [pc |-> "idle", result |-> "absent"]
            /\ ai'.stats.ai_errors = ai.stats.ai_errors + 1
            /\ ai'.consecutive_errors <= ai.consecutive_errors
            /\ ai'.error_count = ai.error_count
            /\ ai'.active = ai.active]_vars
    /\ []((history # <<>> /\ \A i \in 1..Len(history) : history[i] = "low_quality")
            => is_available(ai))

C3_Witness ==
    /\ Len(history) = MaxCalls
    /\ \A i \in 1..Len(history) : history[i] = "low_quality"
    /\ ai.stats.ai_errors = MaxCalls
    /\ is_available(ai)

\* C4: enhance() entered while the enhancer is unavailable returns absent
\* in that step, issues no provider request and changes neither active,
\* error_count, consecutive_errors nor any stat.
C4_UnavailableNoEffect ==
    [][((~ai.active \/ ai.error_count >= config.AI_ERROR_THRESHOLD)
            /\ EntersEnhance) =>
          /\ Returns("unavailable")
          /\ \A t \in Tasks : task'[t].pc = task[t].pc
          /\ \A t \in Tasks : task'[t] # task[t] => task'[t].result = "absent"
          /\ requests' = requests
          /\ ai' = ai]_vars

C4_Witness ==
    /\ history # <<>>
    /\ history[Len(history)] = "unavailable"
    /\ ai.active
    /\ ai.error_count >= config.AI_ERROR_THRESHOLD

\* C5 (as claimed): used-count equals the number of enhance() calls that
\* returned an enhancement.
C5_UsedCountsEnhancements ==
    ai.stats.ai_used = Count(history, "success")

\* Number of hard failures among the calls that have returned.
HardTotal(h) == Cardinality({i \in 1..Len(h) : h[i] \in HardOutcomes})

\* Every run of consecutive hard failures in h is shorter than n, and every
\* other call in h is a full success.
RunsShorterThan(h, n) ==
    /\ \A i \in 1..Len(h) : h[i] \in HardOutcomes \cup {"success"}
    /\ \A i \in 1..Len(h) : HardRun(SubSeq(h, 1, i)) < n

\* C19 (amended): the breaker also counts failures in total: is_available()
\* is true exactly while the enhancer is active and fewer than `threshold`
\* hard failures have occurred in all; a full success between two failures
\* resets consecutive_errors only.
C19_TotalFailureBreaker ==
    is_available(ai) <=>
        (ai.active /\ HardTotal(history) < config.AI_ERROR_THRESHOLD)

C19_Witness ==
    /\ RunsShorterThan(history, config.AI_ERROR_THRESHOLD)
    /\ \E i \in 1..Len(history) : history[i] = "success"
    /\ ai.active
    /\ ai.consecutive_errors < config.AI_ERROR_THRESHOLD
    /\ ai.error_count >= config.AI_ERROR_THRESHOLD

\* C19 (as claimed): as long as every run of consecutive hard failures is
\* shorter than `threshold`, each run being ended by a full success, an
\* active enhancer stays available.
C19_ConsecutiveFailureBreaker ==
    (ai.active /\ RunsShorterThan(history, config.AI_ERROR_THRESHOLD))
        => ai.error_count < config.AI_ERROR_THRESHOLD

\* C20 (as claimed): a request answered with empty text, as every request
\* of the custom provider is, advances error_count and consecutive_errors
\* by one, and `threshold` such requests leave the enhancer unavailable.
C20_EmptyResponseHardFailure ==
    /\ [][(config.AI_PROVIDER_TYPE = "custom" /\ requests' = requests + 1) =>
            /\ ai'.error_count = ai.error_count + 1
            /\ ai'.consecutive_errors = ai.consecutive_errors + 1]_vars
    /\ []((config.AI_PROVIDER_TYPE = "custom"
              /\ requests >= config.AI_ERROR_THRESHOLD)
            => ~is_available(ai))

\* C21 (as claimed): the description is taken from the first pattern whose
\* second group is longer than 10 characters, whether or not a title was
\* found; the title is taken from the first pattern whose first group is
\* longer than 5 characters, whether or not a description was found; a
\* field comes from the fallback segmentation only when no pattern gave it.
C21_IndependentFieldSearch ==
    call.pc = "done" =>
        LET T == {i \in 1..NumPatterns :
                    /\ call.text[i] # None
                    /\ call.text[i][1][1] > 5}
            D == {i \in 1..NumPatterns :
                    /\ call.text[i] # None
                    /\ Len(call.text[i][1]) = 2
                    /\ call.text[i][1][2] > 10}
        IN  /\ T # {} => call.ret.title \in T
                         /\ \A j \in T : call.ret.title <= j
            /\ D # {} => call.ret.description \in D
                         /\ \A j \in D : call.ret.description <= j
            /\ T = {} => call.ret.title = 0
            /\ D = {} => call.ret.description = 0

=============================================================================
